---- MODULE Spec2Model ----
(***************************************************************************)
(* Model of the Option adapters of src/src/lib.rs (Current, Next,          *)
(* SelectNextSome) and of the PollFn container of src/src/poll_fn.rs.      *)
(*                                                                         *)
(* An Option<T> is a sequence of length 0 (None) or 1 (Some(x)).  A        *)
(* Poll<O> is a record [tag, val]: Pending carries no value, Ready(v)      *)
(* carries v.  A panic (assert! / expect) is the third outcome of a call.  *)
(***************************************************************************)
EXTENDS Integers, Sequences, FiniteSets, TLC

\* ---------------------------------------------------------------- bounds
MaxFills == 3      \* occupants the caller creates after construction
MaxPend  == 2      \* Pending answers a primitive gives before it is ready
MaxLen   == 3      \* events (items and Pending answers) of a stream
MaxPolls == 4      \* polls of the occupied PollFn container

Vals == {1, 7}     \* outputs of futures, items of streams

\* ------------------------------------------------------- Option and Poll
None == <<>>
Some(x) == <<x>>
is_some(o) == o # None
is_none(o) == o = None
as_mut(o) == o[1]

Pending == [tag |-> "Pending", val |-> <<>>]
Ready(v) == [tag |-> "Ready", val |-> <<v>>]
Panic == [tag |-> "Panic", val |-> <<>>]
NoPoll == [tag |-> "NoPoll", val |-> <<>>]

\* ------------------------------------------------- delegated primitives
\* A one-shot primitive (T: Future): its first `wait` polls answer Pending,
\* the next one Ready(out); a poll past its completion panics, as the
\* future::ready of the crate example does.  `polled` counts its polls.
Futures(id) == [id : {id}, out : Vals, wait : 0..MaxPend, polled : {0}]

poll_unpin(f) ==
    IF f.polled > f.wait THEN [inner |-> f, poll |-> Panic]
    ELSE IF f.polled < f.wait
         THEN [inner |-> [f EXCEPT !.polled = @ + 1], poll |-> Pending]
         ELSE [inner |-> [f EXCEPT !.polled = @ + 1], poll |-> Ready(f.out)]

\* A multi-value primitive (T: Stream): `sched` is what its next polls
\* answer, None for Pending and Some(v) for the item v; once the schedule
\* is used up it signals end-of-sequence (Ready(None)), and keeps doing so
\* (the stream of the crate example is fused).
RECURSIVE SeqsUpTo(_, _)
SeqsUpTo(S, n) ==
    IF n = 0 THEN {<<>>}
    ELSE LET shorter == SeqsUpTo(S, n - 1)
         IN  shorter \cup {Append(s, e) : s \in shorter, e \in S}

Events == {None} \cup {Some(v) : v \in Vals}

WellFormed(sched) == sched = <<>> \/ sched[Len(sched)] # None

Streams(id) ==
    [id : {id}, sched : {s \in SeqsUpTo(Events, MaxLen) : WellFormed(s)},
     ended : {FALSE}]

poll_next_unpin(s) ==
    IF s.sched = <<>>
    THEN [inner |-> [s EXCEPT !.ended = TRUE], poll |-> Ready(None)]
    ELSE IF Head(s.sched) = None
         THEN [inner |-> [s EXCEPT !.sched = Tail(@)], poll |-> Pending]
         ELSE [inner |-> [s EXCEPT !.sched = Tail(@)],
               poll |-> Ready(Some(Head(s.sched)[1]))]

\* The items a stream still has to produce, in order.
RECURSIVE Items(_)
Items(sched) ==
    IF sched = <<>> THEN <<>>
    ELSE IF Head(sched) = None THEN Items(Tail(sched))
         ELSE <<Head(sched)[1]>> \o Items(Tail(sched))

\* The value held by a PollFn and the caller-supplied poll function `poll`:
\* the function counts its calls in the value, answers Pending to the first
\* `wait` of them and Ready(out) to every later one (the value is
\* stream-like: it may be polled again after Ready).
Values(id) == [id : {id}, out : Vals, wait : 0..MaxPend, polled : {0}]

UserPoll(inner) ==
    IF inner.polled < inner.wait
    THEN [inner |-> [inner EXCEPT !.polled = @ + 1], poll |-> Pending]
    ELSE [inner |-> [inner EXCEPT !.polled = @ + 1], poll |-> Ready(inner.out)]

\* ---------------------------------------------------------------- adapters
\* Each poll is a function of the slot: the slot afterwards, the outcome,
\* whether the adapter itself called cx.waker().wake_by_ref(), and the
\* answer of the delegated primitive (None when it was not polled).

\* Current::poll taking the future out of the slot before it polls it
\* (`self.future.take()` for `self.future.as_mut()`): a Pending future is lost.
Current_poll_takes(slot) ==
    IF is_none(slot)
    THEN [slot |-> slot, poll |-> Panic, woke |-> FALSE, prim |-> None]
    ELSE LET r == poll_unpin(as_mut(slot))
         IN  [slot |-> None, poll |-> r.poll,
              woke |-> FALSE, prim |-> Some(r.poll)]

\* Current::poll without the `*self.future = None` of line 226.
Current_poll_keeps(slot) ==
    IF is_none(slot)
    THEN [slot |-> slot, poll |-> Panic, woke |-> FALSE, prim |-> None]
    ELSE LET r == poll_unpin(as_mut(slot))
         IN  [slot |-> Some(r.inner), poll |-> r.poll,
              woke |-> FALSE, prim |-> Some(r.poll)]

Current_poll(slot) ==
    IF is_none(slot)
    THEN [slot |-> slot, poll |-> Panic, woke |-> FALSE, prim |-> None]
    ELSE LET r == poll_unpin(as_mut(slot))
         IN  IF r.poll.tag = "Ready"
             THEN [slot |-> None, poll |-> Ready(r.poll.val[1]),
                   woke |-> FALSE, prim |-> Some(r.poll)]
             ELSE [slot |-> Some(r.inner), poll |-> r.poll,
                   woke |-> FALSE, prim |-> Some(r.poll)]

\* Next::poll without the `*self.stream = None` of line 156.
Next_poll_keeps(slot) ==
    IF ~is_some(slot)
    THEN [slot |-> slot, poll |-> Panic, woke |-> FALSE, prim |-> None]
    ELSE LET r == poll_next_unpin(as_mut(slot))
         IN  IF r.poll.tag = "Pending"
             THEN [slot |-> Some(r.inner), poll |-> Pending,
                   woke |-> FALSE, prim |-> Some(r.poll)]
             ELSE IF is_some(r.poll.val[1])
                  THEN [slot |-> Some(r.inner),
                        poll |-> Ready(Some(r.poll.val[1][1])),
                        woke |-> FALSE, prim |-> Some(r.poll)]
                  ELSE [slot |-> Some(r.inner), poll |-> Ready(None),
                        woke |-> FALSE, prim |-> Some(r.poll)]

\* Next::poll without the assert! of line 148: an empty slot falls through
\* the `if let` to lines 156-157.
Next_poll_unasserted(slot) ==
    IF ~is_some(slot)
    THEN [slot |-> None, poll |-> Ready(None), woke |-> FALSE, prim |-> None]
    ELSE LET r == poll_next_unpin(as_mut(slot))
         IN  IF r.poll.tag = "Pending"
             THEN [slot |-> Some(r.inner), poll |-> Pending,
                   woke |-> FALSE, prim |-> Some(r.poll)]
             ELSE IF is_some(r.poll.val[1])
                  THEN [slot |-> Some(r.inner),
                        poll |-> Ready(Some(r.poll.val[1][1])),
                        woke |-> FALSE, prim |-> Some(r.poll)]
                  ELSE [slot |-> None, poll |-> Ready(None),
                        woke |-> FALSE, prim |-> Some(r.poll)]

Next_poll(slot) ==
    IF ~is_some(slot)
    THEN [slot |-> slot, poll |-> Panic, woke |-> FALSE, prim |-> None]
    ELSE LET r == poll_next_unpin(as_mut(slot))
         IN  IF r.poll.tag = "Pending"
             THEN [slot |-> Some(r.inner), poll |-> Pending,
                   woke |-> FALSE, prim |-> Some(r.poll)]
             ELSE IF is_some(r.poll.val[1])
                  THEN [slot |-> Some(r.inner),
                        poll |-> Ready(Some(r.poll.val[1][1])),
                        woke |-> FALSE, prim |-> Some(r.poll)]
                  ELSE [slot |-> None, poll |-> Ready(None),
                        woke |-> FALSE, prim |-> Some(r.poll)]

\* SelectNextSome::poll without the assert! of lines 182-185: an empty slot
\* falls through the `if let` to lines 193-195 and wakes the waker again.
SelectNextSome_poll_rearms(slot) ==
    IF ~is_some(slot)
    THEN [slot |-> None, poll |-> Pending, woke |-> TRUE, prim |-> None]
    ELSE LET r == poll_next_unpin(as_mut(slot))
         IN  IF r.poll.tag = "Pending"
             THEN [slot |-> Some(r.inner), poll |-> Pending,
                   woke |-> FALSE, prim |-> Some(r.poll)]
             ELSE IF is_some(r.poll.val[1])
                  THEN [slot |-> Some(r.inner),
                        poll |-> Ready(r.poll.val[1][1]),
                        woke |-> FALSE, prim |-> Some(r.poll)]
                  ELSE [slot |-> None, poll |-> Pending,
                        woke |-> TRUE, prim |-> Some(r.poll)]

\* SelectNextSome::poll without the wake_by_ref of line 194.
SelectNextSome_poll_silent(slot) ==
    IF ~is_some(slot)
    THEN [slot |-> slot, poll |-> Panic, woke |-> FALSE, prim |-> None]
    ELSE LET r == poll_next_unpin(as_mut(slot))
         IN  IF r.poll.tag = "Pending"
             THEN [slot |-> Some(r.inner), poll |-> Pending,
                   woke |-> FALSE, prim |-> Some(r.poll)]
             ELSE IF is_some(r.poll.val[1])
                  THEN [slot |-> Some(r.inner),
                        poll |-> Ready(r.poll.val[1][1]),
                        woke |-> FALSE, prim |-> Some(r.poll)]
                  ELSE [slot |-> None, poll |-> Pending,
                        woke |-> FALSE, prim |-> Some(r.poll)]

\* SelectNextSome::poll taking every Pending of the stream for its end:
\* lines 193-195 run where ready! should have returned.
SelectNextSome_poll_eager(slot) ==
    IF ~is_some(slot)
    THEN [slot |-> slot, poll |-> Panic, woke |-> FALSE, prim |-> None]
    ELSE LET r == poll_next_unpin(as_mut(slot))
         IN  IF r.poll.tag = "Ready" /\ is_some(r.poll.val[1])
             THEN [slot |-> Some(r.inner),
                   poll |-> Ready(r.poll.val[1][1]),
                   woke |-> FALSE, prim |-> Some(r.poll)]
             ELSE [slot |-> None, poll |-> Pending,
                   woke |-> TRUE, prim |-> Some(r.poll)]

SelectNextSome_poll(slot) ==
    IF ~is_some(slot)
    THEN [slot |-> slot, poll |-> Panic, woke |-> FALSE, prim |-> None]
    ELSE LET r == poll_next_unpin(as_mut(slot))
         IN  IF r.poll.tag = "Pending"
             THEN [slot |-> Some(r.inner), poll |-> Pending,
                   woke |-> FALSE, prim |-> Some(r.poll)]
             ELSE IF is_some(r.poll.val[1])
                  THEN [slot |-> Some(r.inner),
                        poll |-> Ready(r.poll.val[1][1]),
                        woke |-> FALSE, prim |-> Some(r.poll)]
                  ELSE [slot |-> None, poll |-> Pending,
                        woke |-> TRUE, prim |-> Some(r.poll)]

\* The adapters are views of the slot they borrow: `Current { future: self }`,
\* `Next { stream: self }`, `SelectNextSome { stream: self }`.
current(slot) == [future |-> slot]
next(slot) == [stream |-> slot]

\* select_next_some() moving the occupant out of the Option into the adapter.
select_next_some_takes(slot) == [stream |-> None]

select_next_some(slot) == [stream |-> slot]

\* is_terminated() reading `is_some()` where the code reads `is_none()`.
is_terminated_inverted(slot) == is_some(slot)

is_terminated(slot) == is_none(slot)

\* ------------------------------------------------------------------ PollFn
poll_fn(v) == Some(v)

\* PollFn::poll treating an empty container as the Option adapters do.
PollFn_poll_strict(slot) ==
    IF is_none(slot)
    THEN [slot |-> slot, poll |-> Panic, woke |-> FALSE, prim |-> None]
    ELSE LET r == UserPoll(as_mut(slot))
         IN  [slot |-> Some(r.inner), poll |-> r.poll,
              woke |-> FALSE, prim |-> Some(r.poll)]

\* PollFn::poll clearing the value on Ready, as Current::poll does.
PollFn_poll_clears(slot) ==
    IF is_none(slot)
    THEN [slot |-> slot, poll |-> Pending, woke |-> FALSE, prim |-> None]
    ELSE LET r == UserPoll(as_mut(slot))
         IN  IF r.poll.tag = "Ready"
             THEN [slot |-> None, poll |-> r.poll,
                   woke |-> FALSE, prim |-> Some(r.poll)]
             ELSE [slot |-> Some(r.inner), poll |-> r.poll,
                   woke |-> FALSE, prim |-> Some(r.poll)]

PollFn_poll(slot) ==
    IF is_none(slot)
    THEN [slot |-> slot, poll |-> Pending, woke |-> FALSE, prim |-> None]
    ELSE LET r == UserPoll(as_mut(slot))
         IN  [slot |-> Some(r.inner), poll |-> r.poll,
              woke |-> FALSE, prim |-> Some(r.poll)]

\* PollFn::set keeping a value that is present (get_or_insert).
set_keeps(slot, v) == IF is_some(slot) THEN slot ELSE Some(v)

set(slot, v) == Some(v)
\* PollFn::clear dropping only a value that was polled.
clear_polled(slot) ==
    IF is_some(slot) /\ as_mut(slot).polled = 0 THEN slot ELSE None

clear(slot) == None
is_empty(slot) == is_none(slot)

\* ------------------------------------------------------------------- state
\* The caller owns one object: an Option slot of a future, an Option slot of
\* a stream, or a PollFn container.  The three share no state, so a program
\* that owns several behaves on each as a program that owns only that one.
Kinds == {"Future", "Stream", "PollFn"}

VARIABLES
    kind,       \* which object the caller owns
    future,     \* Option<T: Future>, the slot Current borrows
    stream,     \* Option<T: Stream>, the slot Next / SelectNextSome borrow
    value,      \* PollFn.value
    nfill,      \* occupants created so far; the next occupant's id is nfill+1
    last,       \* the last operation: its name, the slot before it, the
                \* primitive's answer, the outcome, the adapter's own wake
    completed,  \* ids of the one-shot primitives that answered Ready
    emitted,    \* ids whose output a Current poll returned, in order
    orig,       \* the items the stream occupant had when it was placed
    yielded,    \* the items Next / SelectNextSome returned from the occupant
    calls,      \* invocations of the caller-supplied poll function
    occPolls,   \* PollFn polls made while the container was occupied
    wakes,      \* wake_by_ref calls the adapters made themselves
    parked,     \* crate example: the Option<stream> `parked`
    sum,        \* crate example: `sum`
    pc,         \* crate example: "select", "done" (after break), else "none"
    twin,       \* a second stream slot, polled by SelectNextSome beside `stream`
    lastTwin    \* the last operation on `twin`

loopv == <<parked, sum, pc>>
pairv == <<twin, lastTwin>>

vars == <<kind, future, stream, value, nfill, last, completed, emitted, orig,
          yielded, calls, occPolls, wakes, loopv, pairv>>

\* The record of an operation; `ans` is the answer of a query
\* (is_terminated, is_empty) and `prev` the answer of the operation just
\* before, None where that was no query.
Op(name, pre, r) ==
    [op |-> name, pre |-> pre, prim |-> r.prim, poll |-> r.poll,
     woke |-> r.woke, ans |-> None, prev |-> last.ans]

Call(name, pre) ==
    [op |-> name, pre |-> pre, prim |-> None, poll |-> NoPoll,
     woke |-> FALSE, ans |-> None, prev |-> last.ans]

Query(name, pre, answer) ==
    [op |-> name, pre |-> pre, prim |-> None, poll |-> NoPoll,
     woke |-> FALSE, ans |-> Some(answer), prev |-> last.ans]

First(name) ==
    [op |-> name, pre |-> None, prim |-> None, poll |-> NoPoll,
     woke |-> FALSE, ans |-> None, prev |-> None]

QueryOps ==
    {"Current.is_terminated", "Next.is_terminated",
     "SelectNextSome.is_terminated", "is_empty"}

\* `let mut slot = None;` for the Option slots, poll_fn(value, poll) for the
\* container.
Init ==
    /\ kind \in Kinds
    /\ future = None
    /\ stream = None
    /\ IF kind = "PollFn"
       THEN /\ \E v \in Values(0) : value = poll_fn(v)
            /\ last = First("poll_fn")
       ELSE /\ value = None
            /\ last = First("new")
    /\ nfill = 0
    /\ completed = {}
    /\ emitted = <<>>
    /\ orig = <<>>
    /\ yielded = <<>>
    /\ calls = 0
    /\ occPolls = 0
    /\ wakes = 0
    /\ parked = None
    /\ sum = 0
    /\ pc = "none"
    /\ twin = None
    /\ lastTwin = First("new")

\* The caller assigns the slot: `slot = Some(primitive)`, `slot = None`.
FillFuture ==
    /\ kind = "Future"
    /\ nfill < MaxFills
    /\ \E f \in Futures(nfill + 1) : future' = Some(f)
    /\ nfill' = nfill + 1
    /\ last' = Call("fill", future)
    /\ UNCHANGED <<kind, stream, value, completed, emitted, orig, yielded,
                   calls, occPolls>>
    /\ UNCHANGED <<wakes, loopv, pairv>>

EmptyFuture ==
    /\ kind = "Future"
    /\ future' = None
    /\ last' = Call("empty", future)
    /\ UNCHANGED <<kind, stream, value, nfill, completed, emitted, orig,
                   yielded, calls, occPolls>>
    /\ UNCHANGED <<wakes, loopv, pairv>>

FillStream ==
    /\ kind = "Stream"
    /\ nfill < MaxFills
    /\ \E s \in Streams(nfill + 1) :
          /\ stream' = Some(s)
          /\ orig' = Items(s.sched)
    /\ yielded' = <<>>
    /\ nfill' = nfill + 1
    /\ last' = Call("fill", stream)
    /\ UNCHANGED <<kind, future, value, completed, emitted, calls, occPolls>>
    /\ UNCHANGED <<wakes, loopv, pairv>>

EmptyStream ==
    /\ kind = "Stream"
    /\ stream' = None
    /\ last' = Call("empty", stream)
    /\ UNCHANGED <<kind, future, value, nfill, completed, emitted, orig,
                   yielded, calls, occPolls>>
    /\ UNCHANGED <<wakes, loopv, pairv>>

\* One poll of `future.current()`.
PollCurrent ==
    /\ kind = "Future"
    /\ LET r == Current_poll(current(future).future)
       IN  /\ future' = r.slot
           /\ last' = Op("Current", future, r)
           /\ completed' = IF r.prim # None /\ r.prim[1].tag = "Ready"
                           THEN completed \cup {as_mut(future).id}
                           ELSE completed
           /\ emitted' = IF r.poll.tag = "Ready"
                         THEN Append(emitted, as_mut(future).id)
                         ELSE emitted
    /\ UNCHANGED <<kind, stream, value, nfill, orig, yielded, calls, occPolls>>
    /\ UNCHANGED <<wakes, loopv, pairv>>

\* One poll of `stream.next()`.
PollNext ==
    /\ kind = "Stream"
    /\ LET r == Next_poll(next(stream).stream)
       IN  /\ stream' = r.slot
           /\ last' = Op("Next", stream, r)
           /\ yielded' = IF r.poll.tag = "Ready" /\ is_some(r.poll.val[1])
                         THEN Append(yielded, r.poll.val[1][1])
                         ELSE yielded
    /\ UNCHANGED <<kind, future, value, nfill, completed, emitted, orig,
                   calls, occPolls>>
    /\ UNCHANGED <<wakes, loopv, pairv>>

\* One poll of `stream.select_next_some()`.
PollSelectNextSome ==
    /\ kind = "Stream"
    /\ LET r == SelectNextSome_poll(select_next_some(stream).stream)
       IN  /\ stream' = r.slot
           /\ last' = Op("SelectNextSome", stream, r)
           /\ wakes' = IF r.woke THEN wakes + 1 ELSE wakes
           /\ yielded' = IF r.poll.tag = "Ready"
                         THEN Append(yielded, r.poll.val[1])
                         ELSE yielded
    /\ UNCHANGED <<kind, future, value, nfill, completed, emitted, orig,
                   calls, occPolls>>
    /\ UNCHANGED <<loopv, pairv>>

\* One poll of the PollFn container.
PollPollFn ==
    /\ kind = "PollFn"
    /\ occPolls < MaxPolls
    /\ LET r == PollFn_poll(value)
       IN  /\ value' = r.slot
           /\ last' = Op("PollFn", value, r)
           /\ calls' = IF r.prim # None THEN calls + 1 ELSE calls
    /\ occPolls' = IF is_some(value) THEN occPolls + 1 ELSE occPolls
    /\ UNCHANGED <<kind, future, stream, nfill, completed, emitted, orig,
                   yielded>>
    /\ UNCHANGED <<wakes, loopv, pairv>>

Set ==
    /\ kind = "PollFn"
    /\ nfill < MaxFills
    /\ \E v \in Values(nfill + 1) : value' = set(value, v)
    /\ nfill' = nfill + 1
    /\ last' = Call("set", value)
    /\ UNCHANGED <<kind, future, stream, completed, emitted, orig, yielded,
                   calls, occPolls>>
    /\ UNCHANGED <<wakes, loopv, pairv>>

Clear ==
    /\ kind = "PollFn"
    /\ value' = clear(value)
    /\ last' = Call("clear", value)
    /\ UNCHANGED <<kind, future, stream, nfill, completed, emitted, orig,
                   yielded, calls, occPolls>>
    /\ UNCHANGED <<wakes, loopv, pairv>>

\* `future.current().is_terminated()`, and the like: the adapter is built
\* over the slot and asked; the slot is what the adapter leaves of it.
QueryCurrent ==
    /\ kind = "Future"
    /\ LET a == current(future)
       IN  /\ future' = a.future
           /\ last' = Query("Current.is_terminated", future,
                            is_terminated(a.future))
    /\ UNCHANGED <<kind, stream, value, nfill, completed, emitted, orig,
                   yielded, calls, occPolls, wakes, loopv, pairv>>

QueryNext ==
    /\ kind = "Stream"
    /\ LET a == next(stream)
       IN  /\ stream' = a.stream
           /\ last' = Query("Next.is_terminated", stream,
                            is_terminated(a.stream))
    /\ UNCHANGED <<kind, future, value, nfill, completed, emitted, orig,
                   yielded, calls, occPolls, wakes, loopv, pairv>>

QuerySelectNextSome ==
    /\ kind = "Stream"
    /\ LET a == select_next_some(stream)
       IN  /\ stream' = a.stream
           /\ last' = Query("SelectNextSome.is_terminated", stream,
                            is_terminated(a.stream))
    /\ UNCHANGED <<kind, future, value, nfill, completed, emitted, orig,
                   yielded, calls, occPolls, wakes, loopv, pairv>>

IsEmpty ==
    /\ kind = "PollFn"
    /\ last' = Query("is_empty", value, is_empty(value))
    /\ UNCHANGED <<kind, future, stream, value, nfill, completed, emitted,
                   orig, yielded, calls, occPolls, wakes, loopv, pairv>>

Next ==
    \/ FillFuture
    \/ EmptyFuture
    \/ FillStream
    \/ EmptyStream
    \/ PollCurrent
    \/ PollNext
    \/ PollSelectNextSome
    \/ PollPollFn
    \/ Set
    \/ Clear
    \/ QueryCurrent
    \/ QueryNext
    \/ QuerySelectNextSome
    \/ IsEmpty

Spec == Init /\ [][Next]_vars

\* ------------------------------------------------------ the crate example
\* The select! loop of lib.rs:29-53.  `future` is the example's `value`,
\* `stream` its `values`.  The stream is stream::iter(vec![1, 2, 4]) or any
\* other finite stream; future::ready(v) answers Ready(v) to its first poll.
\* One step is one branch of one select!: select! polls, in an order it
\* picks, the branches whose adapter is not terminated, and runs the body of
\* the first that is Ready.
ExampleItems == <<1, 2, 4>>

LoopStreams ==
    Streams(1) \cup
    {[id |-> 1, sched |-> [i \in 1..Len(ExampleItems) |-> Some(ExampleItems[i])],
      ended |-> FALSE]}

ready(id, v) == [id |-> id, out |-> v, wait |-> 0, polled |-> 0]

LoopInit ==
    /\ kind = "Loop"
    /\ future = None
    /\ parked = None
    /\ \E s \in LoopStreams :
          /\ stream = Some(s)
          /\ orig = Items(s.sched)
    /\ sum = 0
    /\ pc = "select"
    /\ nfill = 1
    /\ last = First("new")
    /\ value = None
    /\ completed = {}
    /\ emitted = <<>>
    /\ yielded = <<>>
    /\ calls = 0
    /\ occPolls = 0
    /\ wakes = 0
    /\ twin = None
    /\ lastTwin = First("new")

\* value = value.current() => { sum += value; swap(&mut parked, &mut values) }
SelectCurrent ==
    /\ pc = "select"
    /\ ~is_terminated(current(future).future)
    /\ LET r == Current_poll(current(future).future)
       IN  /\ future' = r.slot
           /\ last' = Op("Current", future, r)
           /\ completed' = IF r.prim # None /\ r.prim[1].tag = "Ready"
                           THEN completed \cup {as_mut(future).id}
                           ELSE completed
           /\ IF r.poll.tag = "Ready"
              THEN /\ sum' = sum + r.poll.val[1]
                   /\ emitted' = Append(emitted, as_mut(future).id)
                   /\ parked' = stream
                   /\ stream' = parked
                   /\ pc' = "select"
              ELSE /\ pc' = IF r.poll = Panic THEN "panic" ELSE "select"
                   /\ UNCHANGED <<sum, emitted, parked, stream>>
    /\ UNCHANGED <<kind, value, nfill, orig, yielded, calls, occPolls, wakes,
                   pairv>>

\* v = values.next() => match v { Some(v) => { value = Some(future::ready(v));
\* swap(&mut parked, &mut values) }, None => break }
SelectNext ==
    /\ pc = "select"
    /\ ~is_terminated(next(stream).stream)
    /\ LET r == Next_poll(next(stream).stream)
       IN  /\ last' = Op("Next", stream, r)
           /\ IF r.poll.tag = "Ready" /\ is_some(r.poll.val[1])
              THEN /\ future' = Some(ready(nfill + 1, r.poll.val[1][1]))
                   /\ nfill' = nfill + 1
                   /\ yielded' = Append(yielded, r.poll.val[1][1])
                   /\ parked' = r.slot
                   /\ stream' = parked
                   /\ pc' = "select"
              ELSE /\ stream' = r.slot
                   /\ pc' = IF r.poll = Ready(None) THEN "done"
                            ELSE IF r.poll = Panic THEN "panic" ELSE "select"
                   /\ UNCHANGED <<future, nfill, yielded, parked>>
    /\ UNCHANGED <<kind, value, completed, emitted, orig, sum, calls,
                   occPolls, wakes, pairv>>

LoopNext ==
    \/ SelectCurrent
    \/ SelectNext

\* select! is polled again whenever a branch can go on: the streams and
\* futures of the example wake their task.
SpecLoop == LoopInit /\ [][LoopNext]_vars /\ WF_vars(LoopNext)

\* ------------------------------------------------------------ side by side
\* Two slots that hold the same stream: `stream` is polled through next(),
\* `twin` through select_next_some(), always together.
PairInit ==
    /\ kind = "Pair"
    /\ \E s \in Streams(1) :
          /\ stream = Some(s)
          /\ twin = Some(s)
          /\ orig = Items(s.sched)
    /\ nfill = 1
    /\ last = First("new")
    /\ lastTwin = First("new")
    /\ future = None
    /\ value = None
    /\ completed = {}
    /\ emitted = <<>>
    /\ yielded = <<>>
    /\ calls = 0
    /\ occPolls = 0
    /\ wakes = 0
    /\ parked = None
    /\ sum = 0
    /\ pc = "none"

PairFill ==
    /\ nfill < MaxFills
    /\ \E s \in Streams(nfill + 1) :
          /\ stream' = Some(s)
          /\ twin' = Some(s)
          /\ orig' = Items(s.sched)
    /\ yielded' = <<>>
    /\ nfill' = nfill + 1
    /\ last' = Call("fill", stream)
    /\ lastTwin' = [Call("fill", twin) EXCEPT !.prev = lastTwin.ans]
    /\ UNCHANGED <<kind, future, value, completed, emitted, calls, occPolls,
                   wakes, loopv>>

PairPoll ==
    /\ LET r == Next_poll(next(stream).stream)
           t == SelectNextSome_poll(select_next_some(twin).stream)
       IN  /\ stream' = r.slot
           /\ twin' = t.slot
           /\ last' = Op("Next", stream, r)
           /\ lastTwin' = [Op("SelectNextSome", twin, t)
                             EXCEPT !.prev = lastTwin.ans]
           /\ yielded' = IF r.poll.tag = "Ready" /\ is_some(r.poll.val[1])
                         THEN Append(yielded, r.poll.val[1][1])
                         ELSE yielded
           /\ wakes' = IF t.woke THEN wakes + 1 ELSE wakes
    /\ UNCHANGED <<kind, future, value, nfill, completed, emitted, orig,
                   calls, occPolls, loopv>>

PairNext ==
    \/ PairFill
    \/ PairPoll

SpecPair == PairInit /\ [][PairNext]_vars

\* ------------------------------------------------------------------ helpers
Occurrences(seq, x) == Cardinality({i \in 1..Len(seq) : seq[i] = x})

IsPrefix(p, q) == Len(p) <= Len(q) /\ SubSeq(q, 1, Len(p)) = p

Polled(name) == last.op = name /\ last.prim # None

PrimitiveSaid(name, answer) == Polled(name) /\ last.prim[1] = answer

PrimitiveItem(name) ==
    /\ Polled(name)
    /\ last.prim[1].tag = "Ready"
    /\ is_some(last.prim[1].val[1])

\* ------------------------------------------------------------------- claims

\* C1: the Current poll in which the held future completes returns Ready
\* with that future's output and leaves the slot empty, so is_terminated()
\* is true right after it, however many Pending polls came before; the
\* output of every occupant that completed was returned exactly once, and
\* that of an occupant that did not complete never.
C1_CurrentYieldsOnce ==
    /\ (Polled("Current") /\ last.prim[1].tag = "Ready") =>
          /\ last.poll = Ready(as_mut(last.pre).out)
          /\ future = None
          /\ is_terminated(future)
    /\ \A i \in 1..nfill :
          Occurrences(emitted, i) = IF i \in completed THEN 1 ELSE 0

C1_Witness ==
    /\ last.op = "Current"
    /\ last.poll.tag = "Ready"
    /\ as_mut(last.pre).wait = MaxPend
    /\ as_mut(last.pre).polled = MaxPend
    /\ is_terminated(future)

\* C2: a Next poll returns Ready(Some(x)) for the item x the stream produces
\* and leaves the slot occupied by that stream; it returns Ready(None)
\* exactly in the poll where the stream signals end-of-sequence, and that
\* poll empties the slot; the items returned are the stream's items in the
\* stream's order, all of them once the exhausted marker is returned.
C2_NextForwardsInOrder ==
    /\ PrimitiveItem("Next") =>
          /\ last.poll = Ready(Some(last.prim[1].val[1][1]))
          /\ is_some(stream)
          /\ as_mut(stream).id = as_mut(last.pre).id
    /\ PrimitiveSaid("Next", Ready(None)) =>
          /\ last.poll = Ready(None)
          /\ stream = None
    /\ (last.op = "Next" /\ last.poll = Ready(None)) =>
          /\ PrimitiveSaid("Next", Ready(None))
          /\ yielded = orig
    /\ (last.op = "Next" /\ is_some(stream)) =>
          yielded \o Items(as_mut(stream).sched) = orig

C2_Witness ==
    /\ last.op = "Next"
    /\ last.poll = Ready(None)
    /\ stream = None
    /\ Len(yielded) = 2
    /\ yielded[1] # yielded[2]

\* C3: a SelectNextSome poll returns Ready(x) for the item x the stream
\* produces and leaves the slot occupied; the poll in which the stream
\* signals end-of-sequence empties the slot, wakes the current waker and
\* returns Pending; a Ready outcome always carries an item the stream
\* produced in that poll, and the items come in the stream's order.
C3_SelectNextSomeSilentEnd ==
    /\ PrimitiveItem("SelectNextSome") =>
          /\ last.poll = Ready(last.prim[1].val[1][1])
          /\ is_some(stream)
          /\ as_mut(stream).id = as_mut(last.pre).id
    /\ PrimitiveSaid("SelectNextSome", Ready(None)) =>
          /\ last.poll = Pending
          /\ last.woke
          /\ stream = None
          /\ yielded = orig
    /\ (last.op = "SelectNextSome" /\ last.poll.tag = "Ready") =>
          PrimitiveItem("SelectNextSome")
    /\ (last.op = "SelectNextSome" /\ is_some(stream)) =>
          yielded \o Items(as_mut(stream).sched) = orig

C3_Witness ==
    /\ PrimitiveSaid("SelectNextSome", Ready(None))
    /\ last.poll = Pending
    /\ last.woke
    /\ stream = None
    /\ Len(yielded) = 2
    /\ yielded[1] # yielded[2]

C5_NextOverNoneResolves ==
    (last.op = "Next" /\ is_none(last.pre)) => last.poll = Ready(None)

\* C6: a SelectNextSome poll over a slot that holds None (never filled, or
\* emptied by exhaustion) returns Pending and leaves the slot empty.
C6_SelectNextSomeOverNonePends ==
    (last.op = "SelectNextSome" /\ is_none(last.pre)) =>
        last.poll = Pending /\ stream = None

\* C7: for each of the four adapters, a poll in which the delegated
\* primitive (or the caller-supplied function) answers Pending returns
\* Pending, leaves the slot occupied by the same occupant and does not wake
\* the waker itself.
C7_PendingPropagates ==
    /\ PrimitiveSaid("Current", Pending) =>
          /\ last.poll = Pending /\ ~last.woke
          /\ is_some(future) /\ as_mut(future).id = as_mut(last.pre).id
    /\ PrimitiveSaid("Next", Pending) =>
          /\ last.poll = Pending /\ ~last.woke
          /\ is_some(stream) /\ as_mut(stream).id = as_mut(last.pre).id
    /\ PrimitiveSaid("SelectNextSome", Pending) =>
          /\ last.poll = Pending /\ ~last.woke
          /\ is_some(stream) /\ as_mut(stream).id = as_mut(last.pre).id
    /\ PrimitiveSaid("PollFn", Pending) =>
          /\ last.poll = Pending /\ ~last.woke
          /\ is_some(value) /\ as_mut(value).id = as_mut(last.pre).id

C7_Witness ==
    /\ PrimitiveSaid("SelectNextSome", Pending)
    /\ last.poll = Pending
    /\ is_some(stream)
    /\ yielded # <<>>

\* C8: a poll of an empty PollFn returns Pending (no panic), leaves the
\* container empty and does not invoke the caller-supplied function; the
\* function has been invoked as often as the container was polled while
\* occupied.
C8_PollFnEmptyPends ==
    /\ (last.op = "PollFn" /\ is_none(last.pre)) =>
          last.poll = Pending /\ last.prim = None /\ is_empty(value)
    /\ calls = occPolls

C8_Witness ==
    /\ last.op = "PollFn"
    /\ is_none(last.pre)
    /\ last.poll = Pending
    /\ calls = occPolls
    /\ calls > 0
    /\ nfill > 0

\* C9: when the caller-supplied function answers Ready(v), the PollFn poll
\* returns Ready(v) and the container stays occupied by the same value; a
\* poll of an occupied container always invokes the function, also after a
\* Ready; a value whose function answers Pending, Pending, Ready(7) makes
\* the first three polls return Pending, Pending, Ready(7).
C9_PollFnKeepsValue ==
    /\ (Polled("PollFn") /\ last.prim[1].tag = "Ready") =>
          /\ last.poll = last.prim[1]
          /\ ~is_empty(value)
          /\ as_mut(value).id = as_mut(last.pre).id
    /\ (last.op = "PollFn" /\ is_some(last.pre)) =>
          /\ last.prim # None
          /\ as_mut(value).polled = as_mut(last.pre).polled + 1
    /\ (last.op = "PollFn" /\ is_some(last.pre)
          /\ as_mut(last.pre).wait = 2 /\ as_mut(last.pre).out = 7) =>
          /\ as_mut(last.pre).polled < 2 => last.poll = Pending
          /\ as_mut(last.pre).polled = 2 => last.poll = Ready(7)
          /\ ~is_empty(value)

C9_Witness ==
    /\ last.op = "PollFn"
    /\ is_some(last.pre)
    /\ as_mut(last.pre).wait = 2
    /\ as_mut(last.pre).out = 7
    /\ as_mut(last.pre).polled = 2
    /\ last.poll = Ready(7)
    /\ ~is_empty(value)

\* C10: poll_fn constructs an occupied container; clear() leaves it empty,
\* whether it was empty, occupied or ever polled; set(v) leaves it occupied
\* by v, whether it was empty or occupied; a poll leaves the occupancy as
\* it was.
C10_PollFnOccupancy ==
    /\ last.op = "poll_fn" => ~is_empty(value)
    /\ last.op = "clear" => is_empty(value)
    /\ last.op = "set" => ~is_empty(value) /\ as_mut(value).id = nfill
    /\ last.op = "PollFn" => (is_empty(value) <=> is_none(last.pre))

C10_Witness ==
    /\ last.op = "clear"
    /\ is_some(last.pre)
    /\ nfill > 0
    /\ as_mut(last.pre).id = nfill
    /\ as_mut(last.pre).polled = 0
    /\ is_empty(value)

\* C11: is_terminated() of a Current, Next or SelectNextSome adapter answers
\* TRUE exactly when the slot it is built over is empty at that moment, and
\* FALSE exactly when it is occupied, whatever polls, fills and emptyings
\* came before.
C11_TerminatedIffEmpty ==
    /\ last.op = "Current.is_terminated" =>
          /\ last.ans \in {Some(TRUE), Some(FALSE)}
          /\ last.ans = Some(TRUE) <=> is_none(future)
    /\ last.op \in {"Next.is_terminated", "SelectNextSome.is_terminated"} =>
          /\ last.ans \in {Some(TRUE), Some(FALSE)}
          /\ last.ans = Some(TRUE) <=> is_none(stream)

C11_Witness ==
    /\ last.op = "SelectNextSome.is_terminated"
    /\ last.ans = Some(TRUE)
    /\ nfill = 1
    /\ Len(orig) = 2
    /\ yielded = orig

\* C12: is_terminated() and is_empty(), with the construction of the adapter
\* they are asked of, leave the slot and its occupant as they were, poll no
\* primitive and wake nothing; a query that follows a query gives the same
\* answer.
C12_QueriesAreIdle ==
    /\ last.op = "Current.is_terminated" => future = last.pre
    /\ last.op \in {"Next.is_terminated", "SelectNextSome.is_terminated"} =>
          stream = last.pre
    /\ last.op = "is_empty" => value = last.pre
    /\ last.op \in QueryOps =>
          /\ last.prim = None
          /\ last.poll = NoPoll
          /\ ~last.woke
          /\ last.prev # None => last.ans = last.prev

C12_Witness ==
    /\ last.op = "SelectNextSome.is_terminated"
    /\ last.prev = Some(FALSE)
    /\ last.ans = Some(FALSE)
    /\ is_some(stream)
    /\ yielded # <<>>

\* C13: a future is never polled after it answered Ready and a stream never
\* after it signalled end-of-sequence: every primitive an adapter polls was
\* not complete before that poll, no slot holds a completed primitive, and
\* a poll after termination polls nothing.
C13_NoPollPastCompletion ==
    /\ Polled("Current") =>
          /\ as_mut(last.pre).polled <= as_mut(last.pre).wait
          /\ last.prim[1] # Panic
    /\ (Polled("Next") \/ Polled("SelectNextSome")) =>
          ~as_mut(last.pre).ended
    /\ is_some(future) => as_mut(future).polled <= as_mut(future).wait
    /\ is_some(stream) => ~as_mut(stream).ended
    /\ (last.op \in {"Current", "Next", "SelectNextSome"}
          /\ is_none(last.pre)) => last.prim = None

C13_Witness ==
    /\ last.op = "Current"
    /\ is_none(last.pre)
    /\ last.prim = None
    /\ nfill = 1
    /\ emitted = <<1>>

\* C14 (as amended): a poll of Current, Next or SelectNextSome that returns
\* Pending, and a poll of an occupied PollFn that returns Pending, arranged a
\* wake-up in that poll: the primitive was polled and answered Pending, or
\* the adapter woke the waker itself.  A poll of an empty PollFn returns
\* Pending with neither.
C14_SuspendArrangesWake ==
    /\ (last.op \in {"Current", "Next", "SelectNextSome"}
          /\ last.poll = Pending) =>
          PrimitiveSaid(last.op, Pending) \/ last.woke
    /\ (last.op = "PollFn" /\ last.poll = Pending /\ is_some(last.pre)) =>
          PrimitiveSaid("PollFn", Pending)
    /\ (last.op = "PollFn" /\ is_none(last.pre)) =>
          last.poll = Pending /\ last.prim = None /\ ~last.woke

C14_Witness ==
    /\ last.op = "SelectNextSome"
    /\ last.poll = Pending
    /\ last.woke
    /\ wakes = 2

\* C14 (as claimed): every poll of any adapter that returns Pending polled
\* its primitive or woke the waker itself.
C14_EverySuspendArrangesWake ==
    last.poll = Pending => (last.prim # None \/ last.woke)

RECURSIVE SumSeq(_)
SumSeq(seq) == IF seq = <<>> THEN 0 ELSE Head(seq) + SumSeq(Tail(seq))

\* What holds at every step of the example's loop: no poll panics and every
\* poll is of an occupied slot; select! is never entered with both adapters
\* terminated; after the break, sum is the sum of the stream's items.
LoopSafe ==
    /\ last.poll # Panic
    /\ pc # "panic"
    /\ last.op \in {"Current", "Next"} => is_some(last.pre)
    /\ pc = "select" =>
          ~(is_terminated(current(future).future)
              /\ is_terminated(next(stream).stream))
    /\ pc = "done" => sum = SumSeq(orig)

C16_NextAgreesWithSelectNextSome ==
    (last.op = "Next" /\ is_some(last.pre)) =>
        /\ lastTwin.op = "SelectNextSome"
        /\ lastTwin.pre = last.pre
        /\ lastTwin.prim = last.prim
        /\ last.prim # Some(Ready(None)) =>
              /\ last.poll = Pending <=> lastTwin.poll = Pending
              /\ \A x \in Vals :
                    last.poll = Ready(Some(x)) <=> lastTwin.poll = Ready(x)
              /\ last.poll = Pending \/ \E x \in Vals : last.poll = Ready(Some(x))
              /\ is_some(stream) /\ twin = stream
              /\ ~lastTwin.woke /\ ~last.woke
        /\ last.prim = Some(Ready(None)) =>
              /\ stream = None /\ twin = None
              /\ last.poll = Ready(None) /\ ~last.woke
              /\ lastTwin.poll = Pending /\ lastTwin.woke

C16_Witness ==
    /\ last.op = "Next"
    /\ last.prim = Some(Ready(None))
    /\ last.poll = Ready(None)
    /\ lastTwin.poll = Pending
    /\ lastTwin.woke
    /\ Len(yielded) = 2
    /\ twin = None

\* The slot of the object the caller owns.
Slot ==
    IF kind = "Future" THEN future
    ELSE IF kind = "Stream" THEN stream ELSE value

PollOps == {"Current", "Next", "SelectNextSome", "PollFn"}

\* C17: after the caller assigns a primitive to the slot, or calls set(v),
\* the slot holds the new occupant, unpolled, whatever it held before, and
\* is_terminated() is false; every poll delegates to the occupant placed
\* last and returns that occupant's output or items; nothing of an earlier
\* occupant is polled or returned.
C17_RefillReplaces ==
    /\ last.op \in {"fill", "set"} =>
          /\ is_some(Slot)
          /\ as_mut(Slot).id = nfill
          /\ ~is_terminated(Slot)
    /\ (last.op = "fill" /\ kind = "Future") => as_mut(future).polled = 0
    /\ (last.op = "fill" /\ kind = "Stream") =>
          /\ Items(as_mut(stream).sched) = orig
          /\ yielded = <<>>
    /\ last.op = "set" => as_mut(value).polled = 0
    /\ is_some(Slot) => as_mut(Slot).id = nfill
    /\ (last.op \in PollOps /\ last.prim # None) =>
          as_mut(last.pre).id = nfill
    /\ (last.op \in {"Current", "PollFn"} /\ last.poll.tag = "Ready") =>
          last.poll = Ready(as_mut(last.pre).out)
    /\ (kind = "Stream" /\ is_some(stream)) =>
          yielded \o Items(as_mut(stream).sched) = orig
    /\ kind = "Stream" => IsPrefix(yielded, orig)

C17_Witness ==
    /\ last.op = "Current"
    /\ last.poll.tag = "Ready"
    /\ as_mut(last.pre).id = 2
    /\ emitted = <<1, 2>>

\* C18: a poll of Current, Next or SelectNextSome made right after
\* is_terminated() answered false for the same slot, with nothing in
\* between, does not panic: it polls the occupant.
C18_GuardedPollNeverPanics ==
    (last.op \in {"Current", "Next", "SelectNextSome"}
        /\ last.prev = Some(FALSE)) =>
        /\ last.poll # Panic
        /\ is_some(last.pre)
        /\ last.prim # None

C18_Witness ==
    /\ last.op = "Next"
    /\ last.prev = Some(FALSE)
    /\ last.poll = Ready(None)
    /\ nfill = 2

\* C19: an adapter wakes the waker itself only in a SelectNextSome poll in
\* which the occupant signalled end-of-sequence, and that poll empties the
\* slot; so the self-requested wake-ups never outnumber the occupants placed
\* in the slot, and a poll of an empty slot wakes nothing.
C19_SelfWakeOnlyAtEnd ==
    /\ last.woke =>
          /\ PrimitiveSaid("SelectNextSome", Ready(None))
          /\ is_some(last.pre)
          /\ stream = None
    /\ wakes <= nfill
    /\ (last.op = "SelectNextSome" /\ is_none(last.pre)) => ~last.woke

C19_Witness ==
    /\ last.op = "SelectNextSome"
    /\ last.woke
    /\ stream = None
    /\ wakes = 3
    /\ nfill = 3

\* C20: a poll of Current, Next or SelectNextSome leaves the occupancy as it
\* was or turns it from occupied to empty, Current only when it returns
\* Ready, Next and SelectNextSome only at end-of-sequence; a PollFn poll
\* leaves the occupancy as it was; an empty slot becomes occupied only by
\* the caller's assignment, by poll_fn or by set.
C20_PollsOnlyEmpty ==
    /\ last.op = "Current" =>
          /\ is_some(future) => is_some(last.pre)
          /\ (is_some(last.pre) /\ is_none(future)) => last.poll.tag = "Ready"
    /\ last.op \in {"Next", "SelectNextSome"} =>
          /\ is_some(stream) => is_some(last.pre)
          /\ (is_some(last.pre) /\ is_none(stream)) =>
                PrimitiveSaid(last.op, Ready(None))
    /\ last.op = "PollFn" => (is_some(value) <=> is_some(last.pre))
    /\ (is_none(last.pre) /\ is_some(Slot)) =>
          last.op \in {"fill", "set", "poll_fn"}

C20_Witness ==
    /\ last.op = "Current"
    /\ is_some(last.pre)
    /\ is_none(future)
    /\ last.poll.tag = "Ready"
    /\ nfill = 3

====
